---- MODULE Spec2Model ----
(***************************************************************************)
(* A model of the ig-debugheap page-granular debugging allocator           *)
(* (src/DebugHeap.c).  Block records live in the pool m_Blocks and are     *)
(* named by their pool index; NULL is Null.  Addresses are byte addresses; *)
(* the OS protection of the user region is the set of committed pages.     *)
(***************************************************************************)
EXTENDS Integers, Sequences, FiniteSets, TLC

\* ------------------------------------------------------------------------
\* Program constants

kPageSize == 4096

Null == -1

\* ------------------------------------------------------------------------
\* Bounds of the model

\* Largest heap, in pages, that DebugHeapInit is called with.
MaxPages == 6

\* Smallest heap, in pages (the interface asks for at least two pages).
MinPages == 2

PageCounts == MinPages..MaxPages

\* Page numbers at which the OS may place the user region (page aligned).
BasePages == {16, 17}

\* Requests a caller makes: a size and an alignment (a power of two).  A
\* size_t value is hi * 2^44 + lo: TLC integers are 32 bits wide, so the one
\* size above 2^44 is carried as its two parts.
Requests ==
  { [size |-> [hi |-> 0, lo |-> 100], alignment |-> 16],
    [size |-> [hi |-> 0, lo |-> 4097], alignment |-> 8192],
    [size |-> [hi |-> 1, lo |-> 0], alignment |-> 1] }

\* How many freed pointers a caller keeps around (and may pass in again).
MaxStale == 1

Threads == {1, 2}

\* ------------------------------------------------------------------------
\* State

VARIABLES
  heap,        \* struct DebugHeap and the bookkeeping arrays behind it
  committed,   \* the set of pages (address / kPageSize) that are accessible
  fault,       \* "none", or the fatal assertion / signal that ended the process
  live,        \* pointers handed out by Allocate and not yet freed
  stale,       \* the freed pointers the caller still holds, oldest first
  last,        \* the public call that ran last, with its arguments and result
  pc,          \* per thread: position inside a public call (threaded runs)
  seen,        \* per thread: value its last atomic increment/decrement returned
  call,        \* per thread: the call it is making
  reservation  \* the address range VmAllocate reserved, and what VmFree released

vars == <<heap, committed, fault, live, stale, last, pc, seen, call, reservation>>

\* ------------------------------------------------------------------------
\* Virtual memory shim

PagesOf(ptr, size) ==
  IF size <= 0 THEN {} ELSE (ptr \div kPageSize)..((ptr + size - 1) \div kPageSize)

VmCommit(vm, ptr, size) == vm \cup PagesOf(ptr, size)

\* mmap(NULL, size, PROT_NONE, ...) when the OS places the range at page
\* range_page: the range, the size asked for, the pages mapped, and the size
\* later passed to VmFree (Null until then).
VmAllocate(range_page, size) ==
  [range |-> range_page * kPageSize, total_bytes |-> size,
   mapped |-> PagesOf(range_page * kPageSize, size), freed_bytes |-> Null]

\* munmap(ptr, size): the pages of [ptr, ptr + size) leave the mapping.
VmFree(r, ptr, size) ==
  [r EXCEPT !.mapped = @ \ PagesOf(ptr, size), !.freed_bytes = size]

\* Variant: a decommit that leaves the page protections as they are.
VmDecommitKeeps(vm, ptr, size) == vm

VmDecommit(vm, ptr, size) == vm \ PagesOf(ptr, size)

\* ------------------------------------------------------------------------
\* Block records

DebugBlockInfo(allocated, page_count, pending_free, page_index, prev, next) ==
  [m_Allocated |-> allocated, m_PageCount |-> page_count,
   m_PendingFree |-> pending_free, m_PageIndex |-> page_index,
   m_Prev |-> prev, m_Next |-> next]

\* memset(result, 0, sizeof *result): all bits zero, both pointers NULL.
ZeroBlock == DebugBlockInfo(0, 0, 0, 0, Null, Null)

\* Returns [h, result, fault].  Reading through a NULL m_FirstUnusedBlockInfo
\* is a NULL dereference: the process dies with SIGSEGV.
AllocBlockInfo(h) ==
  LET result == h.m_FirstUnusedBlockInfo IN
  IF result = Null
  THEN [h |-> h, result |-> Null, fault |-> "SIGSEGV: NULL block info"]
  ELSE IF h.m_Blocks[result].m_Allocated # 1 \/ h.m_Blocks[result].m_PendingFree # 1
  THEN [h |-> h, result |-> Null, fault |-> "Block info corrupted"]
  ELSE [h |-> [h EXCEPT !.m_FirstUnusedBlockInfo = h.m_Blocks[result].m_Next,
                        !.m_Blocks[result] = ZeroBlock],
        result |-> result, fault |-> "none"]

FreeBlockInfo(h, block_info) ==
  [h EXCEPT !.m_Blocks[block_info].m_Allocated = 1,
            !.m_Blocks[block_info].m_PendingFree = 1,
            !.m_Blocks[block_info].m_Prev = Null,
            !.m_Blocks[block_info].m_Next = h.m_FirstUnusedBlockInfo,
            !.m_FirstUnusedBlockInfo = block_info]

\* ------------------------------------------------------------------------
\* Construction

\* Sizes of the bookkeeping structures where pointers have 8 bytes.
SizeofDebugHeap == 80

SizeofDebugBlockInfo == 24

SizeofPointer == 8

\* bookkeeping_pages of DebugHeapInit.
BookkeepingPages(mem_page_count) ==
  (SizeofDebugHeap + 3 * mem_page_count * SizeofPointer
     + SizeofDebugBlockInfo * mem_page_count + kPageSize - 1) \div kPageSize

\* total_bytes of DebugHeapInit.
TotalBytes(mem_page_count) ==
  (BookkeepingPages(mem_page_count) + mem_page_count) * kPageSize

\* The heap after DebugHeapInit(mem_page_count * kPageSize), its user region
\* placed at page base_page.
DebugHeapInit(mem_page_count, base_page) ==
  LET max_allocs == mem_page_count \div 2
      pool == [i \in 0..(max_allocs - 1) |->
                 DebugBlockInfo(1, 0, 1, 0, Null,
                                IF i + 1 < max_allocs THEN i + 1 ELSE Null)]
      self == [m_MaxAllocs |-> max_allocs,
               m_PageCount |-> mem_page_count,
               m_BaseAddress |-> base_page * kPageSize,
               m_FreeList |-> <<>>,
               m_PendingList |-> <<>>,
               m_BlockLookup |-> [p \in 0..(mem_page_count - 1) |-> Null],
               m_FirstUnusedBlockInfo |-> 0,
               m_Blocks |-> pool,
               m_ReentrancyGuard |-> 0]
      got == AllocBlockInfo(self)
      root_block == got.result
  IN [got.h EXCEPT !.m_Blocks[root_block] =
                      DebugBlockInfo(0, mem_page_count, 0, 0, Null, Null),
                   !.m_FreeList = <<root_block>>]

\* ------------------------------------------------------------------------
\* Allocation

\* Variant: a block of equal size replaces the best block found so far.
BetterFitOrEqual(block_count, page_req, best) ==
  block_count >= page_req /\ (best.block = Null \/ block_count <= best.size)

\* block_count >= page_req && block_count < best_block_size
BetterFit(block_count, page_req, best) ==
  block_count >= page_req /\ (best.block = Null \/ block_count < best.size)

\* No best block yet: best_block = NULL, best_block_size = ~0u.
NoBest == [block |-> Null, size |-> 0, index |-> 0, fault |-> "none"]

\* The best-fit loop of AllocFromFreeList, from free-list slot i on.
RECURSIVE ScanFreeList(_, _, _, _)
ScanFreeList(h, page_req, i, best) ==
  IF i > Len(h.m_FreeList) THEN best
  ELSE IF \/ h.m_Blocks[h.m_FreeList[i]].m_Allocated # 0
          \/ h.m_Blocks[h.m_FreeList[i]].m_PendingFree # 0
  THEN [best EXCEPT !.fault = "block info corrupted"]
  ELSE IF BetterFit(h.m_Blocks[h.m_FreeList[i]].m_PageCount, page_req, best)
  THEN ScanFreeList(h, page_req, i + 1,
                    [block |-> h.m_FreeList[i],
                     size |-> h.m_Blocks[h.m_FreeList[i]].m_PageCount,
                     index |-> i, fault |-> "none"])
  ELSE ScanFreeList(h, page_req, i + 1, best)

\* list with slot index overwritten by the last slot, and the size decremented.
SwapRemove(list, index) ==
  [j \in 1..(Len(list) - 1) |-> IF j = index THEN list[Len(list)] ELSE list[j]]

\* The assertion loop over m_BlockLookup[first + 1 .. first + count - 1]:
\* every entry behind the first page of a block is NULL.
LookupClear(h, first, count) ==
  \A i \in 1..(count - 1) : h.m_BlockLookup[first + i] = Null

\* Variant: the tail block placed at the end of the block that is split.
TailPageIndexPastEnd(bb, unused_page_count) == bb.m_PageIndex + bb.m_PageCount

\* m_PageIndex of the tail block split off the best block bb.
TailPageIndex(bb, unused_page_count) ==
  bb.m_PageIndex + bb.m_PageCount - unused_page_count

\* The tail record is filled in, linked after best_block and appended to the
\* free list; best_block keeps page_req pages.
LinkTail(h, best_block, tail_block, unused_page_count, page_req) ==
  [h EXCEPT
     !.m_Blocks[tail_block] =
        DebugBlockInfo(0, unused_page_count, 0,
                       TailPageIndex(h.m_Blocks[best_block], unused_page_count),
                       best_block, h.m_Blocks[best_block].m_Next),
     !.m_Blocks[best_block].m_Next = tail_block,
     !.m_Blocks[best_block].m_PageCount = page_req,
     !.m_FreeList = Append(h.m_FreeList, tail_block)]

\* The block is entered in the lookup and its address is the result.
Publish(h, best_block) ==
  IF h.m_BlockLookup[h.m_Blocks[best_block].m_PageIndex] # Null
  THEN [h |-> h, ptr |-> 0, fault |-> "block lookup corrupted"]
  ELSE IF ~LookupClear(h, h.m_Blocks[best_block].m_PageIndex,
                       h.m_Blocks[best_block].m_PageCount)
  THEN [h |-> [h EXCEPT !.m_BlockLookup[h.m_Blocks[best_block].m_PageIndex] = best_block],
        ptr |-> 0, fault |-> "block lookup corrupted"]
  ELSE [h |-> [h EXCEPT !.m_BlockLookup[h.m_Blocks[best_block].m_PageIndex] = best_block],
        ptr |-> h.m_BaseAddress + h.m_Blocks[best_block].m_PageIndex * kPageSize,
        fault |-> "none"]

\* Variant: the block is marked and returned without its lookup entry.
MarkAllocatedUnlisted(h, best_block) ==
  [h |-> [h EXCEPT !.m_Blocks[best_block].m_Allocated = 1],
   ptr |-> h.m_BaseAddress + h.m_Blocks[best_block].m_PageIndex * kPageSize,
   fault |-> "none"]

MarkAllocated(h, best_block) ==
  Publish([h EXCEPT !.m_Blocks[best_block].m_Allocated = 1], best_block)

\* The split, given what AllocBlockInfo returned.
SplitWith(h, best, page_req, got) ==
  IF got.fault # "none"
  THEN [h |-> h, ptr |-> 0, fault |-> got.fault]
  ELSE MarkAllocated(LinkTail(got.h, best.block, got.result,
                              best.size - page_req, page_req),
                     best.block)

\* Carve page_req pages out of the best block, already off the free list.
Carve(h, best, page_req) ==
  IF best.size - page_req > 0
  THEN SplitWith(h, best, page_req, AllocBlockInfo(h))
  ELSE MarkAllocated(h, best.block)

TakeBest(h, best, page_req) ==
  IF best.fault # "none" THEN [h |-> h, ptr |-> 0, fault |-> best.fault]
  ELSE IF best.block = Null THEN [h |-> h, ptr |-> 0, fault |-> "none"]
  ELSE Carve([h EXCEPT !.m_FreeList = SwapRemove(h.m_FreeList, best.index)],
             best, page_req)

\* Returns [h, ptr, fault]; ptr = 0 is the NULL result.
AllocFromFreeList(h, page_req) ==
  TakeBest(h, ScanFreeList(h, page_req, 1, NoBest), page_req)

\* x & ~(a - 1) for a power of two a.
AlignDown(x, a) == x - (x % a)

\* user_size is [hi, lo]; hi * 2^44 is a multiple of both 2^32 and kPageSize,
\* so only lo decides the offset.
AlignedOffset(user_size, user_alignment) ==
  AlignDown((kPageSize - user_size.lo) % kPageSize, user_alignment)

\* memset(ptr, 0xfc, aligned_offset) writes the first page of the block, and
\* the result is ptr + aligned_offset.
FillAndPlace(vm, ptr, aligned_offset) ==
  IF aligned_offset > 0 /\ ~(PagesOf(ptr, aligned_offset) \subseteq vm)
  THEN [vm |-> vm, result |-> 0, fault |-> "SIGSEGV: fill of a decommitted page"]
  ELSE [vm |-> vm, result |-> ptr + aligned_offset, fault |-> "none"]

\* Returns [vm, result, fault].
FinalizeAlloc(vm, ptr, user_size, pages_allocated, user_alignment) ==
  FillAndPlace(VmDecommit(VmCommit(vm, ptr, (pages_allocated - 1) * kPageSize),
                          ptr + (pages_allocated - 1) * kPageSize, kPageSize),
               ptr, AlignedOffset(user_size, user_alignment))

\* ------------------------------------------------------------------------
\* Pending-free flush

\* The first slot of list holding block, or 0.
RECURSIVE FindSlot(_, _, _)
FindSlot(list, block, fi) ==
  IF fi > Len(list) THEN 0
  ELSE IF list[fi] = block THEN fi
  ELSE FindSlot(list, block, fi + 1)

\* Variant: a left merge that looks only at adjacency, not at the state of prev.
MergeableLeftAnyState(h, prev, block) ==
  h.m_Blocks[prev].m_PageIndex + h.m_Blocks[prev].m_PageCount
    = h.m_Blocks[block].m_PageIndex

\* The left neighbour is free, not on the pending list, and contiguous.
MergeableLeft(h, prev, block) ==
  /\ h.m_Blocks[prev].m_Allocated = 0
  /\ h.m_Blocks[prev].m_PendingFree = 0
  /\ h.m_Blocks[prev].m_PageIndex + h.m_Blocks[prev].m_PageCount
       = h.m_Blocks[block].m_PageIndex

\* The right neighbour is free, not on the pending list, and contiguous.
MergeableRight(h, block, next) ==
  /\ h.m_Blocks[next].m_Allocated = 0
  /\ h.m_Blocks[next].m_PendingFree = 0
  /\ h.m_Blocks[next].m_PageIndex
       = h.m_Blocks[block].m_PageIndex + h.m_Blocks[block].m_PageCount

\* if (n) n->m_Prev = keep;
SetPrev(h, n, keep) ==
  IF n # Null THEN [h EXCEPT !.m_Blocks[n].m_Prev = keep] ELSE h

\* keep->m_Next = n; if (keep->m_Next) keep->m_Next->m_Prev = keep;
RelinkNext(h, keep, n) == SetPrev([h EXCEPT !.m_Blocks[keep].m_Next = n], n, keep)

\* keep->m_PageCount += gone->m_PageCount;
GrowBy(h, keep, gone) ==
  [h EXCEPT !.m_Blocks[keep].m_PageCount = @ + h.m_Blocks[gone].m_PageCount]

\* Find next on the free list and remove it, if it is there.
UnlistAt(h, fi) ==
  IF fi # 0 THEN [h EXCEPT !.m_FreeList = SwapRemove(h.m_FreeList, fi)] ELSE h

Unlist(h, next) == UnlistAt(h, FindSlot(h.m_FreeList, next, 1))

\* block merges into its left neighbour prev.
MergeLeft(h, prev, block) ==
  FreeBlockInfo(GrowBy(RelinkNext(h, prev, h.m_Blocks[block].m_Next), prev, block),
                block)

\* The right neighbour next merges into block.
MergeRight(h, block, next) ==
  FreeBlockInfo(
    Unlist(GrowBy(RelinkNext(h, block, h.m_Blocks[next].m_Next), block, next), next),
    next)

\* The left half of one loop iteration: [h, block, block_removed].
LeftWith(h, block, prev) ==
  IF prev # Null /\ MergeableLeft(h, prev, block)
  THEN [h |-> MergeLeft(h, prev, block), block |-> prev, block_removed |-> TRUE]
  ELSE [h |-> h, block |-> block, block_removed |-> FALSE]

\* Variant: no merge with the right neighbour.
RightWithNone(s, next) == s

\* The right half, on the block the left half left.
RightWith(s, next) ==
  IF next # Null /\ MergeableRight(s.h, s.block, next)
  THEN [s EXCEPT !.h = MergeRight(s.h, s.block, next)]
  ELSE s

RightStep(s) == RightWith(s, s.h.m_Blocks[s.block].m_Next)

\* Variant: the block goes on the free list with m_PendingFree still set, so
\* that the blocks after it on the pending list do not merge with it.
ToFreeListStillPending(s) ==
  IF ~s.block_removed
  THEN [s.h EXCEPT !.m_FreeList = Append(s.h.m_FreeList, s.block)]
  ELSE s.h

\* Variant: the pending block goes on the free list even after a left merge.
ToFreeListAlways(s) ==
  [s.h EXCEPT !.m_Blocks[s.block].m_PendingFree = 0,
              !.m_FreeList = Append(s.h.m_FreeList, s.block)]

\* This block goes on the free list, unless the left merge removed it.
ToFreeList(s) ==
  IF ~s.block_removed
  THEN [s.h EXCEPT !.m_Blocks[s.block].m_PendingFree = 0,
                   !.m_FreeList = Append(s.h.m_FreeList, s.block)]
  ELSE s.h

\* One iteration of the loop of FlushPendingFrees, for the pending block.
FlushOne(h, block) ==
  ToFreeList(RightStep(LeftWith(h, block, h.m_Blocks[block].m_Prev)))

\* The loop of FlushPendingFrees from pending-list slot i on: the pending
\* list itself is not written inside the loop.
RECURSIVE FlushFrom(_, _)
FlushFrom(h, i) ==
  IF i > Len(h.m_PendingList) THEN h
  ELSE FlushFrom(FlushOne(h, h.m_PendingList[i]), i + 1)

FlushPendingFrees(h) == [FlushFrom(h, 1) EXCEPT !.m_PendingList = <<>>]

\* ------------------------------------------------------------------------
\* Public operations (the body between the guard's ENTER and LEAVE)

\* 1 + (uint32_t) ((size + kPageSize - 1) / kPageSize): the quotient is
\* size.hi * 2^32 + (size.lo + kPageSize - 1) / kPageSize, and the cast to
\* uint32_t drops the multiple of 2^32.
PageReq(size) == 1 + ((size.lo + kPageSize - 1) \div kPageSize)

\* The result of Allocate once a block was found: a is what AllocFromFreeList
\* returned and f what FinalizeAlloc did with it.
Finalized(a, f, flushed) ==
  [h |-> a.h, vm |-> f.vm, result |-> f.result, fault |-> f.fault, flushed |-> flushed]

\* The second try, after the flush.
Retry(vm, size, alignment, a2) ==
  IF a2.fault # "none"
  THEN [h |-> a2.h, vm |-> vm, result |-> 0, fault |-> a2.fault, flushed |-> TRUE]
  ELSE IF a2.ptr # 0
  THEN Finalized(a2, FinalizeAlloc(vm, a2.ptr, size, PageReq(size), alignment), TRUE)
  ELSE [h |-> a2.h, vm |-> vm, result |-> 0, fault |-> "none", flushed |-> TRUE]

\* The first try, and the flush when it finds nothing.
FirstTry(h, vm, size, alignment, a1) ==
  IF a1.fault # "none"
  THEN [h |-> a1.h, vm |-> vm, result |-> 0, fault |-> a1.fault, flushed |-> FALSE]
  ELSE IF a1.ptr # 0
  THEN Finalized(a1, FinalizeAlloc(vm, a1.ptr, size, PageReq(size), alignment), FALSE)
  ELSE Retry(vm, size, alignment,
             AllocFromFreeList(FlushPendingFrees(h), PageReq(size)))

\* Variant: an allocation that flushes the pending list before its first search.
AllocateBodyEagerFlush(h, vm, size, alignment) ==
  Retry(vm, size, alignment, AllocFromFreeList(FlushPendingFrees(h), PageReq(size)))

\* Returns [h, vm, result, fault, flushed]; result = 0 is NULL.
AllocateBody(h, vm, size, alignment) ==
  FirstTry(h, vm, size, alignment, AllocFromFreeList(h, PageReq(size)))

\* (uint32_t) ((ptr - m_BaseAddress) / kPageSize) as the signed 32-bit residue
\* of the uint32_t value: a pointer d bytes below the base wraps around to
\* 2^32 - ceil(d / kPageSize), which is carried as -ceil(d / kPageSize).
PageIndexOf(h, ptr) ==
  IF ptr >= h.m_BaseAddress
  THEN (ptr - h.m_BaseAddress) \div kPageSize
  ELSE -((h.m_BaseAddress - ptr + kPageSize - 1) \div kPageSize)

\* page_index < heap->m_PageCount, an unsigned comparison.
ValidPageIndex(h, page_index) == page_index >= 0 /\ page_index < h.m_PageCount

\* Variant: a free that leaves the lookup entry in place.
ClearLookupKeeps(h, page_index) == h

\* Zero out this block in the lookup to catch double frees.
ClearLookup(h, page_index) == [h EXCEPT !.m_BlockLookup[page_index] = Null]

\* Variant: the block goes to the front of the pending list.
ToPendingListFront(h, block) == [h EXCEPT !.m_PendingList = <<block>> \o h.m_PendingList]

\* heap->m_PendingList[heap->m_PendingListSize++] = block;
ToPendingList(h, block) == [h EXCEPT !.m_PendingList = Append(h.m_PendingList, block)]

\* Returns [h, vm, fault].
FreeBody(h, vm, ptr) ==
  LET page_index == PageIndexOf(h, ptr)
      block == h.m_BlockLookup[page_index]
      h1 == ClearLookup([h EXCEPT !.m_Blocks[block].m_Allocated = 0,
                                  !.m_Blocks[block].m_PendingFree = 1],
                        page_index)
      h2 == ToPendingList(h1, block)
      block_base == h.m_BaseAddress + h.m_Blocks[block].m_PageIndex * kPageSize
  IN IF ~ValidPageIndex(h, page_index)
     THEN [h |-> h, vm |-> vm, fault |-> "Invalid pointer freed"]
     ELSE IF block = Null
     THEN [h |-> h, vm |-> vm, fault |-> "Double free"]
     ELSE IF h.m_Blocks[block].m_Allocated # 1 \/ h.m_Blocks[block].m_PendingFree # 0
     THEN [h |-> h, vm |-> vm, fault |-> "Block state corrupted"]
     ELSE IF ~LookupClear(h1, page_index, h1.m_Blocks[block].m_PageCount)
     THEN [h |-> h1, vm |-> vm, fault |-> "block lookup corrupted"]
     ELSE [h |-> h2,
           vm |-> VmDecommit(vm, block_base,
                             (h.m_Blocks[block].m_PageCount - 1) * kPageSize),
           fault |-> "none"]

\* Returns [result, fault]: reading m_PageCount through a NULL lookup entry
\* is a NULL dereference.
GetAllocSizeBody(h, ptr) ==
  LET page_index == PageIndexOf(h, ptr)
      block == h.m_BlockLookup[page_index]
  IN IF ~ValidPageIndex(h, page_index)
     THEN [result |-> 0, fault |-> "Invalid pointer"]
     ELSE IF block = Null
     THEN [result |-> 0, fault |-> "SIGSEGV: NULL block"]
     ELSE [result |-> (h.m_Blocks[block].m_PageCount - 1) * kPageSize - (ptr % kPageSize),
           fault |-> "none"]

\* Variant: the end of the user region is left out of the range.
OwnsBodyExclusive(h, buffer) ==
  buffer >= h.m_BaseAddress /\ buffer < h.m_BaseAddress + h.m_PageCount * kPageSize

OwnsBody(h, buffer) ==
  LET base == h.m_BaseAddress
      end == base + h.m_PageCount * kPageSize
  IN buffer >= base /\ buffer <= end

\* ------------------------------------------------------------------------
\* The reentrancy guard

\* AtomicInc32 / AtomicDec32 on m_ReentrancyGuard; the new value is returned.
AtomicInc32(h) == [h EXCEPT !.m_ReentrancyGuard = h.m_ReentrancyGuard + 1]

AtomicDec32(h) == [h EXCEPT !.m_ReentrancyGuard = h.m_ReentrancyGuard - 1]

MTFault == "Unsynchronized MT usage detected"

\* Variant: an entry check that accepts any positive count.
GuardEnterOkAnyPositive(post_increment) == post_increment >= 1

\* DEBUG_THREAD_GUARD_ENTER: 1 == AtomicInc32(&heap->m_ReentrancyGuard)
GuardEnterOk(post_increment) == post_increment = 1

\* DEBUG_THREAD_GUARD_LEAVE: 0 == AtomicDec32(&heap->m_ReentrancyGuard)
GuardLeaveOk(post_decrement) == post_decrement = 0

\* ------------------------------------------------------------------------
\* Callers

NoSize == [hi |-> 0, lo |-> 0]

Idle == [op |-> "none", size |-> NoSize, alignment |-> 0, ptr |-> 0]

CallRecord(op, size, alignment, ptr, result, flushed) ==
  [op |-> op, size |-> size, alignment |-> alignment, ptr |-> ptr,
   result |-> result, flushed |-> flushed]

End(h) == h.m_BaseAddress + h.m_PageCount * kPageSize

\* Pointers a caller passes in: those it got from Allocate, live or already
\* freed, and addresses around the two ends of the user region.
Pointers == {l.ptr : l \in live} \cup {stale[i] : i \in 1..Len(stale)}
              \cup {heap.m_BaseAddress - 1, End(heap), End(heap) + 1}

\* The freed pointers the caller keeps: the MaxStale most recent ones.
Remember(kept, ptr) ==
  LET all == Append(SelectSeq(kept, LAMBDA p : p # ptr), ptr)
  IN IF Len(all) > MaxStale THEN Tail(all) ELSE all

\* The allocations whose block a Free of ptr releases.
Released(h, ptr) == {l \in live : PageIndexOf(h, l.ptr) = PageIndexOf(h, ptr)}

Init ==
  /\ \E mem_page_count \in PageCounts, base_page \in BasePages :
       /\ heap = DebugHeapInit(mem_page_count, base_page)
       /\ reservation = VmAllocate(base_page - BookkeepingPages(mem_page_count),
                                   TotalBytes(mem_page_count))
  /\ committed = {}
  /\ fault = "none"
  /\ live = {}
  /\ stale = <<>>
  /\ last = CallRecord("Init", NoSize, 0, 0, 0, FALSE)
  /\ pc = [t \in Threads |-> "idle"]
  /\ seen = [t \in Threads |-> 0]
  /\ call = [t \in Threads |-> Idle]

\* ------------------------------------------------------------------------
\* Public calls made by one thread at a time: ENTER, the body and LEAVE.

\* The effect of the body of Allocate on the caller's view.
AfterAllocate(r, size, alignment) ==
  /\ committed' = r.vm
  /\ fault' = r.fault
  /\ live' = IF r.fault = "none" /\ r.result # 0
             THEN live \cup {[ptr |-> r.result, size |-> size, alignment |-> alignment]}
             ELSE live
  /\ stale' = IF r.fault = "none" THEN SelectSeq(stale, LAMBDA p : p # r.result)
              ELSE stale
  /\ last' = CallRecord("Allocate", size, alignment, 0, r.result, r.flushed)

AfterFree(h, r, ptr) ==
  /\ committed' = r.vm
  /\ fault' = r.fault
  /\ live' = IF r.fault = "none" THEN live \ Released(h, ptr) ELSE live
  /\ stale' = IF r.fault = "none" THEN Remember(stale, ptr) ELSE stale
  /\ last' = CallRecord("Free", NoSize, 0, ptr, 0, FALSE)

\* DebugHeapDestroy has not run: the heap may still be called.
Alive == reservation.freed_bytes = Null

\* A call by the only running thread: ENTER's assertion holds and the body
\* runs, or the guard's assertion ends the process.
Single ==
  /\ fault = "none"
  /\ Alive
  /\ \A t \in Threads : pc[t] = "idle"
  /\ UNCHANGED <<pc, seen, call, reservation>>

\* heap after LEAVE, or as the fault left it.
Left(h, f) == IF f = "none" THEN AtomicDec32(h) ELSE h

AllocateDone(r, size, alignment) ==
  /\ heap' = Left(r.h, r.fault)
  /\ AfterAllocate(r, size, alignment)

FreeDone(h, r, ptr) ==
  /\ heap' = Left(r.h, r.fault)
  /\ AfterFree(h, r, ptr)

GetAllocSizeDone(h, r, ptr) ==
  /\ heap' = Left(h, r.fault)
  /\ fault' = r.fault
  /\ last' = CallRecord("GetAllocSize", NoSize, 0, ptr, r.result, FALSE)
  /\ UNCHANGED <<committed, live, stale>>

OwnsDone(h, status, buffer) ==
  /\ heap' = AtomicDec32(h)
  /\ last' = CallRecord("Owns", NoSize, 0, buffer, IF status THEN 1 ELSE 0, FALSE)
  /\ UNCHANGED <<committed, fault, live, stale>>

\* The guard's ENTER assertion failed.
Tripped(h) ==
  /\ heap' = h
  /\ fault' = MTFault
  /\ UNCHANGED <<committed, live, stale, last>>

AllocateIn(h, size, alignment) ==
  IF GuardEnterOk(h.m_ReentrancyGuard)
  THEN AllocateDone(AllocateBody(h, committed, size, alignment), size, alignment)
  ELSE Tripped(h)

FreeIn(h, ptr) ==
  IF GuardEnterOk(h.m_ReentrancyGuard)
  THEN FreeDone(h, FreeBody(h, committed, ptr), ptr)
  ELSE Tripped(h)

GetAllocSizeIn(h, ptr) ==
  IF GuardEnterOk(h.m_ReentrancyGuard)
  THEN GetAllocSizeDone(h, GetAllocSizeBody(h, ptr), ptr)
  ELSE Tripped(h)

OwnsIn(h, buffer) ==
  IF GuardEnterOk(h.m_ReentrancyGuard)
  THEN OwnsDone(h, OwnsBody(h, buffer), buffer)
  ELSE Tripped(h)

Allocate(size, alignment) == Single /\ AllocateIn(AtomicInc32(heap), size, alignment)

Free(ptr) == Single /\ FreeIn(AtomicInc32(heap), ptr)

GetAllocSize(ptr) == Single /\ GetAllocSizeIn(AtomicInc32(heap), ptr)

Owns(buffer) == Single /\ OwnsIn(AtomicInc32(heap), buffer)

Next ==
  \/ \E req \in Requests : Allocate(req.size, req.alignment)
  \/ \E ptr \in Pointers : Free(ptr)
  \/ \E ptr \in Pointers : GetAllocSize(ptr)
  \/ \E buffer \in Pointers : Owns(buffer)

Spec == Init /\ [][Next]_vars

\* ------------------------------------------------------------------------
\* The whole life of a heap: public calls, then DebugHeapDestroy.

\* DebugHeapDestroy: VmFree(heap, heap->m_PageCount * kPageSize).  The heap
\* pointer is the start of the range; pages that leave the mapping are no
\* longer accessible.  Nothing may be called on the heap afterwards.
Destroy ==
  /\ fault = "none"
  /\ \A t \in Threads : pc[t] = "idle"
  /\ Alive
  /\ reservation' = VmFree(reservation, reservation.range, heap.m_PageCount * kPageSize)
  /\ committed' = committed \cap reservation'.mapped
  /\ last' = CallRecord("Destroy", NoSize, 0, 0, 0, FALSE)
  /\ UNCHANGED <<heap, fault, live, stale, pc, seen, call>>

NextLife ==
  \/ Next
  \/ Destroy

SpecLife == Init /\ [][NextLife]_vars

\* ------------------------------------------------------------------------
\* The coalescing scenario: on a fresh heap, allocations one after another,
\* then a Free of each of them in any order, then one more Allocate.

\* An allocation of the first phase: nothing has been freed yet.
ScenarioAllocate(size, alignment) ==
  /\ stale = <<>>
  /\ heap.m_PendingList = <<>>
  /\ Allocate(size, alignment)

\* A Free of the second phase, of one of the allocations.
ScenarioFree(ptr) ==
  /\ ptr \in {l.ptr : l \in live}
  /\ stale = <<>> \/ last.op = "Free"
  /\ Free(ptr)

\* The Allocate that follows the last Free.
ScenarioTrigger(size, alignment) ==
  /\ live = {}
  /\ last.op = "Free"
  /\ Allocate(size, alignment)

NextScenario ==
  \/ \E req \in Requests : ScenarioAllocate(req.size, req.alignment)
  \/ \E ptr \in Pointers : ScenarioFree(ptr)
  \/ \E req \in Requests : ScenarioTrigger(req.size, req.alignment)

SpecScenario == Init /\ [][NextScenario]_vars

\* ------------------------------------------------------------------------
\* Public calls made by two threads with no lock around the heap.  A call is
\* ENTER's atomic increment, ENTER's assertion, the body, LEAVE's atomic
\* decrement and LEAVE's assertion; threads interleave between these steps.

\* Largest heap, in pages, of the threaded runs.
MTMaxPages == 3

InitMT == Init /\ heap.m_PageCount <= MTMaxPages

Calls ==
  {[op |-> "Allocate", size |-> req.size, alignment |-> req.alignment, ptr |-> 0] :
     req \in Requests}
  \cup {[op |-> o, size |-> NoSize, alignment |-> 0, ptr |-> l.ptr] :
          o \in {"Free", "GetAllocSize", "Owns"}, l \in live}

Enter(t, c) ==
  /\ fault = "none"
  /\ Alive
  /\ pc[t] = "idle"
  /\ heap' = AtomicInc32(heap)
  /\ seen' = [seen EXCEPT ![t] = heap'.m_ReentrancyGuard]
  /\ call' = [call EXCEPT ![t] = c]
  /\ pc' = [pc EXCEPT ![t] = "enter"]
  /\ UNCHANGED <<committed, fault, live, stale, last, reservation>>

EnterCheck(t) ==
  /\ fault = "none"
  /\ pc[t] = "enter"
  /\ IF GuardEnterOk(seen[t])
     THEN pc' = [pc EXCEPT ![t] = "body"] /\ UNCHANGED fault
     ELSE fault' = MTFault /\ UNCHANGED pc
  /\ UNCHANGED <<heap, committed, live, stale, last, seen, call, reservation>>

AllocateRan(r, size, alignment) == heap' = r.h /\ AfterAllocate(r, size, alignment)

FreeRan(r, ptr) == heap' = r.h /\ AfterFree(heap, r, ptr)

GetAllocSizeRan(r, ptr) ==
  /\ fault' = r.fault
  /\ last' = CallRecord("GetAllocSize", NoSize, 0, ptr, r.result, FALSE)
  /\ UNCHANGED <<heap, committed, live, stale>>

OwnsRan(status, buffer) ==
  /\ last' = CallRecord("Owns", NoSize, 0, buffer, IF status THEN 1 ELSE 0, FALSE)
  /\ UNCHANGED <<heap, committed, fault, live, stale>>

Body(t) ==
  /\ fault = "none"
  /\ Alive
  /\ pc[t] = "body"
  /\ CASE call[t].op = "Allocate" ->
            AllocateRan(AllocateBody(heap, committed, call[t].size, call[t].alignment),
                        call[t].size, call[t].alignment)
       [] call[t].op = "Free" ->
            FreeRan(FreeBody(heap, committed, call[t].ptr), call[t].ptr)
       [] call[t].op = "GetAllocSize" ->
            GetAllocSizeRan(GetAllocSizeBody(heap, call[t].ptr), call[t].ptr)
       [] OTHER ->
            OwnsRan(OwnsBody(heap, call[t].ptr), call[t].ptr)
  /\ pc' = [pc EXCEPT ![t] = IF fault' = "none" THEN "exit" ELSE "body"]
  /\ UNCHANGED <<seen, call, reservation>>

Leave(t) ==
  /\ fault = "none"
  /\ Alive
  /\ pc[t] = "exit"
  /\ heap' = AtomicDec32(heap)
  /\ seen' = [seen EXCEPT ![t] = heap'.m_ReentrancyGuard]
  /\ pc' = [pc EXCEPT ![t] = "leave"]
  /\ UNCHANGED <<committed, fault, live, stale, last, call, reservation>>

LeaveCheck(t) ==
  /\ fault = "none"
  /\ pc[t] = "leave"
  /\ IF GuardLeaveOk(seen[t])
     THEN /\ pc' = [pc EXCEPT ![t] = "idle"]
          /\ call' = [call EXCEPT ![t] = Idle]
          /\ UNCHANGED fault
     ELSE fault' = MTFault /\ UNCHANGED <<pc, call>>
  /\ UNCHANGED <<heap, committed, live, stale, last, seen, reservation>>

NextMT ==
  \/ \E t \in Threads, c \in Calls : Enter(t, c)
  \/ \E t \in Threads : EnterCheck(t)
  \/ \E t \in Threads : Body(t)
  \/ \E t \in Threads : Leave(t)
  \/ \E t \in Threads : LeaveCheck(t)

SpecMT == InitMT /\ [][NextMT]_vars

\* ------------------------------------------------------------------------
\* Calls with pointers anywhere in the 64-bit address space

\* A pointer hi * 2^44 + lo, with lo one of the pointers near the heap.
WidePointers == {[hi |-> hi, lo |-> lo] : hi \in {0, 1}, lo \in Pointers}

\* page_index = (uint32_t) ((ptr - base) / kPageSize): the quotient is
\* hi * 2^32 + (lo - base) / kPageSize, and the cast to uint32_t drops the
\* multiple of 2^32.
PageIndexOfWide(h, ptr) == PageIndexOf(h, ptr.lo)

\* The pointer near the heap that has the same page_index and the same offset
\* in its page (ptr % kPageSize): DebugHeapFree and DebugHeapGetAllocSize use
\* nothing else of the pointer.
SamePage(h, ptr) ==
  h.m_BaseAddress + PageIndexOfWide(h, ptr) * kPageSize + (ptr.lo % kPageSize)

FreeWide(ptr) == Free(SamePage(heap, ptr))

GetAllocSizeWide(ptr) == GetAllocSize(SamePage(heap, ptr))

NextWide ==
  \/ \E req \in Requests : Allocate(req.size, req.alignment)
  \/ \E ptr \in WidePointers : FreeWide(ptr)
  \/ \E ptr \in WidePointers : GetAllocSizeWide(ptr)

SpecWide == Init /\ [][NextWide]_vars

\* ------------------------------------------------------------------------
\* Calls that ask for zero bytes

\* DebugHeapAllocate(heap, 0, alignment).
AllocateZero(alignment) == Allocate(NoSize, alignment)

NextZero ==
  \/ \E req \in Requests : Allocate(req.size, req.alignment)
  \/ \E alignment \in {1, 16} : AllocateZero(alignment)
  \/ \E ptr \in Pointers : Free(ptr)

SpecZero == Init /\ [][NextZero]_vars

\* ------------------------------------------------------------------------
\* Threads, with DebugHeapDestroy

\* DebugHeapDestroy called by thread t: the function has no guard macros, so
\* it runs whatever the other thread is doing, and it is one VmFree.
DestroyMT(t) ==
  /\ fault = "none"
  /\ Alive
  /\ pc[t] = "idle"
  /\ reservation' = VmFree(reservation, reservation.range, heap.m_PageCount * kPageSize)
  /\ committed' = committed \cap reservation'.mapped
  /\ last' = CallRecord("Destroy", NoSize, 0, 0, 0, FALSE)
  /\ UNCHANGED <<heap, fault, live, stale, pc, seen, call>>

Unmapped == "SIGSEGV: heap unmapped"

\* A thread still inside a call reads or writes the DebugHeap after the
\* range that starts at it was unmapped.
UseAfterDestroy(t) ==
  /\ fault = "none"
  /\ ~Alive
  /\ pc[t] \in {"body", "exit"}
  /\ fault' = Unmapped
  /\ UNCHANGED <<heap, committed, live, stale, last, pc, seen, call, reservation>>

NextMTLife ==
  \/ NextMT
  \/ \E t \in Threads : DestroyMT(t)
  \/ \E t \in Threads : UseAfterDestroy(t)

SpecMTLife == InitMT /\ [][NextMTLife]_vars

\* ------------------------------------------------------------------------
\* Vocabulary of the properties

\* Records carved out of the pool: the pool's own records carry both flags.
InUse(h) ==
  {b \in DOMAIN h.m_Blocks :
     ~(h.m_Blocks[b].m_Allocated = 1 /\ h.m_Blocks[b].m_PendingFree = 1)}

IsAllocated(h, b) == h.m_Blocks[b].m_Allocated = 1 /\ h.m_Blocks[b].m_PendingFree = 0

IsPendingFree(h, b) == h.m_Blocks[b].m_Allocated = 0 /\ h.m_Blocks[b].m_PendingFree = 1

IsFree(h, b) == h.m_Blocks[b].m_Allocated = 0 /\ h.m_Blocks[b].m_PendingFree = 0

\* Page indices covered by block b.
Covers(h, b) ==
  h.m_Blocks[b].m_PageIndex..(h.m_Blocks[b].m_PageIndex + h.m_Blocks[b].m_PageCount - 1)

\* Page indices of the user region that the OS lets the program touch.
Accessible(h, vm) ==
  {i \in 0..(h.m_PageCount - 1) : (h.m_BaseAddress \div kPageSize) + i \in vm}

\* The blocks met by following m_Next from b, at most fuel of them.
RECURSIVE Walk(_, _, _)
Walk(h, b, fuel) ==
  IF b = Null \/ fuel = 0 THEN <<>>
  ELSE <<b>> \o Walk(h, h.m_Blocks[b].m_Next, fuel - 1)

\* The address-order list, from the in-use block at page 0.
Chain(h) ==
  LET firsts == {b \in InUse(h) : h.m_Blocks[b].m_PageIndex = 0}
  IN IF Cardinality(firsts) # 1 THEN <<>>
     ELSE Walk(h, CHOOSE b \in firsts : TRUE, h.m_MaxAllocs + 1)

Tiles(h) ==
  LET c == Chain(h)
      B == h.m_Blocks
  IN /\ Len(c) >= 1
     /\ Len(c) <= h.m_MaxAllocs
     /\ \A j \in 1..Len(c) : c[j] \in InUse(h) /\ B[c[j]].m_PageCount >= 1
     /\ B[c[1]].m_PageIndex = 0
     /\ \A j \in 1..(Len(c) - 1) :
          /\ B[c[j + 1]].m_PageIndex = B[c[j]].m_PageIndex + B[c[j]].m_PageCount
          /\ B[c[j]].m_PageIndex < B[c[j + 1]].m_PageIndex
     /\ B[c[Len(c)]].m_PageIndex + B[c[Len(c)]].m_PageCount = h.m_PageCount

\* A block of page_count pages holds a request of size bytes plus its guard
\* page: page_count >= 1 + ceil(size / kPageSize).  A size of 2^44 or more
\* needs more pages than the 31 bits of m_PageCount can count.
FitsRequest(page_count, size) ==
  size.hi = 0 /\ page_count >= 1 + ((size.lo + kPageSize - 1) \div kPageSize)

\* The free list holds a block that the request fits in.
FreeFit(h, size) ==
  \E i \in 1..Len(h.m_FreeList) :
     FitsRequest(h.m_Blocks[h.m_FreeList[i]].m_PageCount, size)

\* n >= size, for a size [hi, lo] and an integer n < 2^44.
SizeLeq(size, n) == size.hi = 0 /\ size.lo <= n

\* The pending block, if any, that starts at the page ptr points into.
PendingAt(h, ptr) ==
  {b \in InUse(h) : IsPendingFree(h, b) /\ h.m_Blocks[b].m_PageIndex = PageIndexOf(h, ptr)}

\* The Allocated blocks with their extent.
AllocatedBlocks(h) ==
  {[block |-> b, index |-> h.m_Blocks[b].m_PageIndex, count |-> h.m_Blocks[b].m_PageCount] :
     b \in {x \in InUse(h) : IsAllocated(h, x)}}

\* Address of the guard page of the block that ptr's page starts.
GuardAddress(h, ptr) ==
  h.m_BaseAddress
    + (h.m_Blocks[h.m_BlockLookup[PageIndexOf(h, ptr)]].m_PageIndex
       + h.m_Blocks[h.m_BlockLookup[PageIndexOf(h, ptr)]].m_PageCount - 1) * kPageSize

\* The last call was an Allocate that returned a pointer / returned NULL.
AllocateReturned == last.op = "Allocate" /\ fault = "none" /\ last.result # 0

AllocateFailed == last.op = "Allocate" /\ fault = "none" /\ last.result = 0

\* ------------------------------------------------------------------------
\* Properties

\* C1: a page of the user region is accessible exactly when it lies in an
\* Allocated block and is not that block's last page; so the guard page of an
\* Allocated block and all pages of Free and PendingFree blocks are not.
C1_CommittedIffAllocated ==
  /\ committed = {(heap.m_BaseAddress \div kPageSize) + i : i \in Accessible(heap, committed)}
  /\ Accessible(heap, committed) =
       UNION {Covers(heap, b) \ {heap.m_Blocks[b].m_PageIndex + heap.m_Blocks[b].m_PageCount - 1} :
                b \in {x \in InUse(heap) : IsAllocated(heap, x)}}

\* After a Free, blocks of all three states exist.
C1_Witness ==
  /\ fault = "none"
  /\ last.op = "Free"
  /\ \E a \in InUse(heap), b \in InUse(heap), c \in InUse(heap) :
        IsAllocated(heap, a) /\ IsPendingFree(heap, b) /\ IsFree(heap, c)

\* One call, seen from the blocks that are PendingFree before and after it.
WindowStep ==
  /\ \A b \in InUse(heap) :
       (IsPendingFree(heap, b) /\ ~(last'.op = "Allocate" /\ last'.flushed))
       => /\ b \in InUse(heap')
          /\ IsPendingFree(heap', b)
          /\ heap'.m_Blocks[b].m_PageIndex = heap.m_Blocks[b].m_PageIndex
          /\ heap'.m_Blocks[b].m_PageCount = heap.m_Blocks[b].m_PageCount
          /\ Covers(heap', b) \cap Accessible(heap', committed') = {}
  /\ (last'.op = "Allocate" /\ last'.flushed) => ~FreeFit(heap, last'.size)
  /\ (last'.op = "Allocate" /\ fault' = "none" /\ last'.result # 0)
     => \A b \in InUse(heap') :
           IsPendingFree(heap', b)
           => Covers(heap', b)
                \cap Covers(heap', heap'.m_BlockLookup[PageIndexOf(heap', last'.result)])
              = {}

\* C2: a PendingFree block stays PendingFree, in place and inaccessible, over
\* every call except an Allocate that flushed; Allocate flushes only when no
\* Free block fits the request; the block Allocate returns overlaps no
\* PendingFree block.
C2_Window == [][WindowStep]_vars

\* Allocate returned a pointer without flushing while a block was PendingFree.
C2_Witness ==
  /\ AllocateReturned
  /\ ~last.flushed
  /\ \E b \in InUse(heap) : IsPendingFree(heap, b)

\* One Free, of a live pointer or of a pointer whose block is still PendingFree.
DoubleFreeStep ==
  last'.op = "Free"
  => /\ (\E l \in live : l.ptr = last'.ptr)
        => fault' = "none" /\ PendingAt(heap', last'.ptr) # {}
     /\ (PendingAt(heap, last'.ptr) # {})
        => /\ heap.m_BlockLookup[PageIndexOf(heap, last'.ptr)] = Null
           /\ fault' = "Double free"
           /\ heap'.m_Blocks = heap.m_Blocks
           /\ heap'.m_FreeList = heap.m_FreeList
           /\ heap'.m_PendingList = heap.m_PendingList
           /\ heap'.m_BlockLookup = heap.m_BlockLookup
           /\ heap'.m_FirstUnusedBlockInfo = heap.m_FirstUnusedBlockInfo
           /\ committed' = committed

\* C3: Free of a live pointer succeeds and leaves its block PendingFree; Free
\* of a freed pointer whose block is still PendingFree finds a NULL lookup
\* entry and dies on the double-free assertion, with blocks, lists, lookup and
\* page protections as they were.
C3_DoubleFree == [][DoubleFreeStep]_vars

\* A second Free of a freed pointer, its block still PendingFree, has asserted.
C3_Witness ==
  /\ fault = "Double free"
  /\ last.op = "Free"
  /\ \E i \in 1..Len(stale) : stale[i] = last.ptr
  /\ PendingAt(heap, last.ptr) # {}

\* The threads that have done their guard increment and not yet their decrement.
Entered == {t \in Threads : pc[t] \in {"enter", "body", "exit"}}

\* The threads past the entry check and before the decrement of LEAVE.
Inside == {t \in Threads : pc[t] \in {"body", "exit"}}

\* C4: when two threads have both incremented the guard and neither has
\* decremented it, the guard assertion has fired or the later entrant holds a
\* post-increment value other than 1 that its entry check rejects; a thread
\* past its entry check saw 1; no two threads are past the check together.
C4_GuardFires ==
  /\ Cardinality(Entered) = 2
     => \/ fault = MTFault
        \/ \E t \in Entered : pc[t] = "enter" /\ seen[t] # 1 /\ ~GuardEnterOk(seen[t])
  /\ \A t \in Inside : seen[t] = 1
  /\ Cardinality(Inside) <= 1

\* The later entrant saw 2 and asserted while the other thread was past its check.
C4_Witness ==
  /\ fault = MTFault
  /\ Cardinality(Entered) = 2
  /\ Cardinality(Inside) = 1
  /\ \E t \in Entered : pc[t] = "enter" /\ seen[t] = 2

\* C5: every pointer Allocate returned is a multiple of the alignment asked for.
C5_Aligned == \A l \in live : l.ptr % l.alignment = 0

\* C5, for alignments up to the page size.
C5_AlignedWithinPage ==
  \A l \in live : l.alignment <= kPageSize => l.ptr % l.alignment = 0

\* C6: for a live pointer p = Allocate(h, s, a), GetAllocSize(h, p) is the
\* distance from p to the guard page, s <= GetAllocSize(h, p) <= s + a - 1,
\* the pages of [p, p + s) are accessible and the guard page is not.
C6_Capacity ==
  fault = "none" =>
  \A l \in live :
     /\ GetAllocSizeBody(heap, l.ptr).fault = "none"
     /\ GetAllocSizeBody(heap, l.ptr).result = GuardAddress(heap, l.ptr) - l.ptr
     /\ SizeLeq(l.size, GetAllocSizeBody(heap, l.ptr).result)
     /\ GetAllocSizeBody(heap, l.ptr).result <= l.size.lo + l.alignment - 1
     /\ PagesOf(l.ptr, GetAllocSizeBody(heap, l.ptr).result) \subseteq committed
     /\ (GuardAddress(heap, l.ptr) \div kPageSize) \notin committed

\* C6, for the requests below 2^44 bytes.
C6_CapacityBelowWrap ==
  fault = "none" =>
  \A l \in live :
     l.size.hi = 0 =>
     /\ GetAllocSizeBody(heap, l.ptr).fault = "none"
     /\ GetAllocSizeBody(heap, l.ptr).result = GuardAddress(heap, l.ptr) - l.ptr
     /\ SizeLeq(l.size, GetAllocSizeBody(heap, l.ptr).result)
     /\ GetAllocSizeBody(heap, l.ptr).result <= l.size.lo + l.alignment - 1
     /\ PagesOf(l.ptr, GetAllocSizeBody(heap, l.ptr).result) \subseteq committed
     /\ (GuardAddress(heap, l.ptr) \div kPageSize) \notin committed

\* One Allocate, against the free list as it is before and after a flush.
NullIffNoFitStep ==
  last'.op = "Allocate"
  => /\ (fault' = "none" /\ last'.result = 0)
        <=> ~FreeFit(FlushPendingFrees(heap), last'.size)
     /\ (FreeFit(heap, last'.size) \/ FreeFit(FlushPendingFrees(heap), last'.size))
        => /\ fault' = "none"
           /\ last'.result >= heap.m_BaseAddress
           /\ last'.result < End(heap)

\* C7: Allocate returns NULL exactly when, after the flush, the free list
\* holds no block the request fits in; when one fits before or after the
\* flush, Allocate returns a pointer into the user region.
C7_NullIffNoFit == [][NullIffNoFitStep]_vars

\* One Allocate that returns NULL leaves heap and page protections as they were.
FailureAtomicStep ==
  (last'.op = "Allocate" /\ fault' = "none" /\ last'.result = 0)
  => heap' = heap /\ committed' = committed

\* C8: when Allocate returns NULL the whole heap state is as before the call.
C8_FailureAtomic == [][FailureAtomicStep]_vars

\* One Allocate that returns NULL: what it keeps and what the flush changes.
FailureKeepsAllocationsStep ==
  (last'.op = "Allocate" /\ fault' = "none" /\ last'.result = 0)
  => /\ committed' = committed
     /\ heap'.m_BlockLookup = heap.m_BlockLookup
     /\ heap'.m_ReentrancyGuard = heap.m_ReentrancyGuard
     /\ AllocatedBlocks(heap') = AllocatedBlocks(heap)
     /\ heap'.m_PendingList = <<>>
     /\ \A b \in InUse(heap') : ~IsPendingFree(heap', b)
     /\ heap.m_PendingList = <<>> => heap' = heap

\* C8, amended: when Allocate returns NULL, the lookup, the page protections
\* and the Allocated blocks are as before the call and the pending list has
\* been flushed; with an empty pending list the whole heap state is as before.
C8_FailureKeepsAllocations == [][FailureKeepsAllocationsStep]_vars

\* Allocate returned NULL after a flush, with Allocated and Free blocks present.
C8_Witness ==
  /\ AllocateFailed
  /\ last.flushed
  /\ heap.m_FreeList # <<>>
  /\ AllocatedBlocks(heap) # {}

\* C9: the address-order list, followed from the block at page 0, tiles
\* [0, PageCount): increasing indices, no gaps, no overlaps, no empty block.
C9_Tiling == Tiles(heap)

\* After a flush and a split the chain has three blocks or more, one of them Free.
C9_Witness ==
  /\ AllocateReturned
  /\ last.flushed
  /\ Len(Chain(heap)) >= 3
  /\ \E b \in InUse(heap) : IsFree(heap, b)

\* C10: between public calls no two address-adjacent blocks are both Free.
C10_NoAdjacentFree ==
  fault = "none" =>
  \A a \in InUse(heap), b \in InUse(heap) :
     (/\ heap.m_Blocks[a].m_PageIndex + heap.m_Blocks[a].m_PageCount
           = heap.m_Blocks[b].m_PageIndex
      /\ IsFree(heap, a))
     => ~IsFree(heap, b)

\* The records on the unused pool, following m_Next from m_FirstUnusedBlockInfo.
UnusedPool(h) ==
  {b \in DOMAIN h.m_Blocks :
     \E j \in 1..Len(Walk(h, h.m_FirstUnusedBlockInfo, h.m_MaxAllocs)) :
        Walk(h, h.m_FirstUnusedBlockInfo, h.m_MaxAllocs)[j] = b}

\* Set of the elements of a sequence.
Range(list) == {list[j] : j \in 1..Len(list)}

\* No element of the sequence appears twice.
NoRepeat(list) == \A j \in 1..Len(list), k \in 1..Len(list) : list[j] = list[k] => j = k

\* C11: for every Allocated block of n pages at page i, BlockLookup[i] is the
\* block and BlockLookup[i+1 .. i+n-1] are NULL; BlockLookup is NULL at every
\* page a Free or PendingFree block covers.
C11_LookupConsistent ==
  \A b \in InUse(heap) :
     /\ IsAllocated(heap, b)
        => /\ heap.m_BlockLookup[heap.m_Blocks[b].m_PageIndex] = b
           /\ \A j \in Covers(heap, b) \ {heap.m_Blocks[b].m_PageIndex} :
                 heap.m_BlockLookup[j] = Null
     /\ ~IsAllocated(heap, b)
        => \A j \in Covers(heap, b) : heap.m_BlockLookup[j] = Null

\* An Allocated block of three pages next to a PendingFree and a Free block.
C11_Witness ==
  /\ fault = "none"
  /\ \E a \in InUse(heap) : IsAllocated(heap, a) /\ heap.m_Blocks[a].m_PageCount >= 3
  /\ \E b \in InUse(heap) : IsPendingFree(heap, b)
  /\ \E c \in InUse(heap) : IsFree(heap, c)

\* The two lists against the block states.
ListsMatchStates(h) ==
  /\ Range(h.m_FreeList) = {b \in InUse(h) : IsFree(h, b)}
  /\ NoRepeat(h.m_FreeList)
  /\ Range(h.m_PendingList) = {b \in InUse(h) : IsPendingFree(h, b)}
  /\ NoRepeat(h.m_PendingList)
  /\ UnusedPool(h) \cap (Range(h.m_FreeList) \cup Range(h.m_PendingList)) = {}

\* The head of the unused pool is a record that FreeBlockInfo put there.
PoolHeadReturned(h) ==
  /\ h.m_FirstUnusedBlockInfo # Null
  /\ h.m_Blocks[h.m_FirstUnusedBlockInfo].m_Next
       # (IF h.m_FirstUnusedBlockInfo + 1 < h.m_MaxAllocs
          THEN h.m_FirstUnusedBlockInfo + 1 ELSE Null)

\* C12: between calls the free list holds every Free block exactly once and
\* nothing else, the pending list holds every PendingFree block exactly once
\* and nothing else, and no record of the unused pool is on either list.
C12_ListMembership == fault = "none" => ListsMatchStates(heap)

\* A flush has returned a record to the pool, and blocks are on both lists.
C12_Witness ==
  /\ fault = "none"
  /\ heap.m_FreeList # <<>>
  /\ heap.m_PendingList # <<>>
  /\ PoolHeadReturned(heap)

\* AllocBlockInfo was called with the unused pool empty.
PoolExhausted == fault = "SIGSEGV: NULL block info"

\* C13: the records in use never exceed MaxAllocs, and AllocBlockInfo is
\* never called when the unused pool is empty.
C13_PoolSuffices ==
  /\ Cardinality(InUse(heap)) <= heap.m_MaxAllocs
  /\ ~PoolExhausted

\* The heap the search that succeeded ran on: as it was, or after the flush.
Searched(h, flushed) == IF flushed THEN FlushPendingFrees(h) ELSE h

\* The record of the block that ptr's page starts, or Null.
BlockAt(h, ptr) ==
  IF ValidPageIndex(h, PageIndexOf(h, ptr))
  THEN h.m_BlockLookup[PageIndexOf(h, ptr)] ELSE Null

\* Block b is the best fit in the free list of h0 among the blocks that
\* Enough accepts: none is smaller, and none of equal size has a lower slot.
IsBestFit(h0, b, Enough(_)) ==
  \E i \in 1..Len(h0.m_FreeList) :
     /\ h0.m_FreeList[i] = b
     /\ Enough(h0.m_Blocks[b].m_PageCount)
     /\ \A j \in 1..Len(h0.m_FreeList) :
           Enough(h0.m_Blocks[h0.m_FreeList[j]].m_PageCount)
           => \/ h0.m_Blocks[h0.m_FreeList[j]].m_PageCount > h0.m_Blocks[b].m_PageCount
              \/ /\ h0.m_Blocks[h0.m_FreeList[j]].m_PageCount = h0.m_Blocks[b].m_PageCount
                 /\ i <= j

\* The pointer lies in the first page of block b as the search found it.
InFirstPage(h0, b, ptr) ==
  /\ ptr >= h0.m_BaseAddress + h0.m_Blocks[b].m_PageIndex * kPageSize
  /\ ptr < h0.m_BaseAddress + (h0.m_Blocks[b].m_PageIndex + 1) * kPageSize

\* One Allocate that returns a pointer, against the pages the request needs.
BestFitStep ==
  (last'.op = "Allocate" /\ fault' = "none" /\ last'.result # 0)
  => /\ BlockAt(heap', last'.result) # Null
     /\ IsBestFit(Searched(heap, last'.flushed), BlockAt(heap', last'.result),
                  LAMBDA n : FitsRequest(n, last'.size))
     /\ InFirstPage(Searched(heap, last'.flushed), BlockAt(heap', last'.result),
                    last'.result)

\* C14: the block Allocate carves from has the smallest page count among the
\* free-list blocks with at least 1 + ceil(size / kPageSize) pages, the lowest
\* slot among those of equal page count, and the returned pointer lies in its
\* first page.
C14_BestFit == [][BestFitStep]_vars

\* One Allocate that returns a pointer, against the page_req the code computed.
BestFitOfPageReqStep ==
  (last'.op = "Allocate" /\ fault' = "none" /\ last'.result # 0)
  => /\ BlockAt(heap', last'.result) # Null
     /\ IsBestFit(Searched(heap, last'.flushed), BlockAt(heap', last'.result),
                  LAMBDA n : n >= PageReq(last'.size))
     /\ InFirstPage(Searched(heap, last'.flushed), BlockAt(heap', last'.result),
                    last'.result)

\* C14, with the 32-bit page_req of the code as the pages required.
C14_BestFitOfPageReq == [][BestFitOfPageReqStep]_vars

\* Allocate returned a block while two other free-list blocks also had the
\* pages the request needs.
C14_Witness ==
  /\ AllocateReturned
  /\ \E i \in 1..Len(heap.m_FreeList), j \in 1..Len(heap.m_FreeList) :
        /\ i # j
        /\ heap.m_Blocks[heap.m_FreeList[i]].m_PageCount >= PageReq(last.size)
        /\ heap.m_Blocks[heap.m_FreeList[j]].m_PageCount >= PageReq(last.size)

\* C15: after Destroy no page of the reservation is still mapped, and the
\* size passed to VmFree is the size that was passed to VmAllocate.
C15_DestroyReleasesAll ==
  last.op = "Destroy"
  => /\ reservation.mapped = {}
     /\ reservation.freed_bytes = reservation.total_bytes

\* The pointers Allocate has returned that the caller still holds.
Held(lv, st) == {l.ptr : l \in lv} \cup Range(st)

\* One call: what Owns answers and changes, and what it would answer for
\* every pointer Allocate has returned.
OwnsStep ==
  /\ last'.op = "Owns"
     => /\ (last'.result = 1)
           <=> /\ heap.m_BaseAddress <= last'.ptr
               /\ last'.ptr <= heap.m_BaseAddress + heap.m_PageCount * kPageSize
        /\ last'.result \in {0, 1}
        /\ heap' = heap
        /\ committed' = committed
        /\ fault' = fault
  /\ \A p \in Held(live', stale') : OwnsBody(heap', p)

\* C16: Owns answers true exactly for base <= ptr <= base + PageCount *
\* kPageSize and changes nothing; for every pointer Allocate returned it is
\* true while the pointer is live, after its Free, and after later flushes and
\* reallocations.
C16_Owns == [][OwnsStep]_vars

\* Owns answered true for a freed pointer whose page has been allocated again.
C16_Witness ==
  /\ last.op = "Owns"
  /\ last.result = 1
  /\ last.ptr \in Range(stale)
  /\ \E l \in live : PageIndexOf(heap, l.ptr) = PageIndexOf(heap, last.ptr)

\* One Free of a pointer that was freed before and not returned again since.
FreeOnceStep ==
  (/\ last'.op = "Free"
   /\ last'.ptr \in Range(stale)
   /\ last'.ptr \notin {l.ptr : l \in live})
  => /\ fault' # "none"
     /\ live' = live
     /\ AllocatedBlocks(heap') = AllocatedBlocks(heap)

\* C17: a Free of a pointer that has already been freed ends in a fatal
\* assertion and releases no live allocation, whatever calls came in between.
C17_FreeOnce == [][FreeOnceStep]_vars

\* One Free of a freed pointer whose page no live allocation starts in.
FreeOnceUnreusedStep ==
  (/\ last'.op = "Free"
   /\ last'.ptr \in Range(stale)
   /\ \A l \in live : PageIndexOf(heap, l.ptr) # PageIndexOf(heap, last'.ptr))
  => /\ fault' = "Double free"
     /\ live' = live
     /\ AllocatedBlocks(heap') = AllocatedBlocks(heap)

\* C17, while the first page of the freed block starts no new allocation.
C17_FreeOnceUnreused == [][FreeOnceUnreusedStep]_vars

\* A Free of a freed pointer asserted after a flush: the page it points into
\* now lies inside an Allocated block that starts at another page.
C17_Witness ==
  /\ fault = "Double free"
  /\ last.op = "Free"
  /\ last.ptr \in Range(stale)
  /\ \E b \in InUse(heap) :
        /\ IsAllocated(heap, b)
        /\ PageIndexOf(heap, last.ptr) \in Covers(heap, b)
        /\ PageIndexOf(heap, last.ptr) # heap.m_Blocks[b].m_PageIndex

\* The pages of the blocks on the pending list of h.
PendingPages(h) == UNION {Covers(h, b) : b \in Range(h.m_PendingList)}

\* One Free block of h covers all the pages in the set.
OneFreeBlockCovers(h, pages) ==
  \E b \in InUse(h) : IsFree(h, b) /\ pages \subseteq Covers(h, b)

\* The Allocate after the last Free, when it flushes k >= 2 freed blocks.
CoalescingStep ==
  (/\ last'.op = "Allocate"
   /\ last'.flushed
   /\ live = {}
   /\ Len(heap.m_PendingList) >= 2)
  => OneFreeBlockCovers(FlushPendingFrees(heap), PendingPages(heap))

\* C18: on a fresh heap, after k >= 2 adjacent allocations and a Free of each
\* in any order, the flush pass of the next Allocate that finds no fit leaves
\* all pages of the k freed blocks inside one Free block.
C18_Coalescing == [][CoalescingStep]_vars

\* The Allocate after the last Free flushed on a 6-page heap: every request
\* fits the tail left by a single allocation there, so k >= 2 blocks were freed.
C18_Witness ==
  /\ heap.m_PageCount = 6
  /\ AllocateReturned
  /\ last.flushed
  /\ PoolHeadReturned(heap)

\* The m_Prev and m_Next links of the in-use blocks of h agree.
LinksAgree(h) ==
  \A b \in InUse(h) :
     /\ h.m_Blocks[b].m_Next # Null
        => h.m_Blocks[h.m_Blocks[b].m_Next].m_Prev = b
     /\ h.m_Blocks[b].m_Prev = Null <=> h.m_Blocks[b].m_PageIndex = 0

\* C19: between calls, every in-use block b with b.next = n has n.prev = b,
\* and b.prev is none exactly for the block at page 0.
C19_LinkConsistency == fault = "none" => LinksAgree(heap)

\* The pages of h inside some Allocated block.
AllocatedPages(h) == UNION {Covers(h, b) : b \in {x \in InUse(h) : IsAllocated(h, x)}}

\* The user region of h has a run of contiguous pages, outside every
\* Allocated block, that the request fits in.
FreeRunFits(h, size) ==
  \E first \in 0..(h.m_PageCount - 1), end \in 0..(h.m_PageCount - 1) :
     /\ first <= end
     /\ (first..end) \cap AllocatedPages(h) = {}
     /\ FitsRequest(end - first + 1, size)

\* Allocate returns none only when no run of pages fits.
NoneOnlyIfNoRunStep ==
  (last'.op = "Allocate" /\ fault' = "none" /\ last'.result = 0)
  => ~FreeRunFits(heap, last'.size)

\* With nothing allocated, a request of up to (PageCount - 1) pages succeeds.
EmptyHeapServesStep ==
  (/\ last'.op = "Allocate"
   /\ live = {}
   /\ SizeLeq(last'.size, (heap.m_PageCount - 1) * kPageSize))
  => fault' = "none" /\ last'.result # 0

NoFragmentationLossStep == NoneOnlyIfNoRunStep /\ EmptyHeapServesStep

\* C20: an Allocate needing n pages returns none only if the user region has
\* no run of n contiguous pages outside every Allocated block; once every
\* allocation has been freed, a request of up to (PageCount - 1) * PageSize
\* bytes succeeds.
C20_NoFragmentationLoss == [][NoFragmentationLossStep]_vars

\* Blocks a and b of h are both on the pending list, and b starts where a ends.
AdjacentPending(h, a, b) ==
  /\ a \in Range(h.m_PendingList)
  /\ b \in Range(h.m_PendingList)
  /\ h.m_Blocks[a].m_PageIndex + h.m_Blocks[a].m_PageCount = h.m_Blocks[b].m_PageIndex

\* One in-use block of h covers all the pages in the set.
OneBlockCovers(h, pages) == \E c \in InUse(h) : pages \subseteq Covers(h, c)

\* A flush keeps the blocks that were adjacent on the pending list apart.
KeptApartStep ==
  (last'.op = "Allocate" /\ last'.flushed)
  => \A a \in Range(heap.m_PendingList), b \in Range(heap.m_PendingList) :
        AdjacentPending(heap, a, b)
        => ~OneBlockCovers(FlushPendingFrees(heap),
                           Covers(heap, a) \cup Covers(heap, b))

MergedInPassStep ==
  (last'.op = "Allocate" /\ last'.flushed)
  => \A a \in Range(heap.m_PendingList), b \in Range(heap.m_PendingList) :
        (AdjacentPending(heap, a, b) /\ heap.m_Blocks[b].m_Prev = a)
        => OneFreeBlockCovers(FlushPendingFrees(heap),
                              Covers(heap, a) \cup Covers(heap, b))

LastFreedPage == PageIndexOf(heap, stale[Len(stale)])

DestroyStep == Alive /\ ~Alive'

\* The counter is zero exactly when no thread is between its increment and its
\* decrement, and a Destroy that overlaps another thread's call asserts.
GuardCoversStep ==
  /\ (fault' = "none" /\ Alive')
     => (heap'.m_ReentrancyGuard = 0 <=> \A t \in Threads : pc'[t] \in {"idle", "leave"})
  /\ (DestroyStep /\ Entered # {}) => fault' = MTFault

\* C22: the reentrancy counter is zero iff no public operation is in progress;
\* every public operation, Destroy included, goes through the guard, so a
\* Destroy overlapping another thread's call is a fatal assertion.
C22_GuardCovers == [][GuardCoversStep]_vars

\* The pointer lies outside [base, base + PageCount * PageSize).
OutOfRegion(h, ptr) ==
  ptr.hi # 0 \/ ptr.lo < h.m_BaseAddress \/ ptr.lo >= End(h)

\* The heap apart from the counter that ENTER has incremented.
BesidesGuard(h) == [h EXCEPT !.m_ReentrancyGuard = 0]

\* The call asserted with the message and left heap and pages as they were.
Rejected(message) ==
  /\ fault' = message
  /\ BesidesGuard(heap') = BesidesGuard(heap)
  /\ committed' = committed

OutOfRegionStep ==
  \A ptr \in WidePointers :
     OutOfRegion(heap, ptr)
     => /\ FreeWide(ptr) => Rejected("Invalid pointer freed")
        /\ GetAllocSizeWide(ptr) => Rejected("Invalid pointer")

\* C23: Free and GetAllocSize called with any pointer outside the user region,
\* below base, at the end address or any distance above it, trigger the
\* invalid-pointer assertion and change no heap state.
C23_OutOfRegion == [][OutOfRegionStep]_vars

\* The same, for pointers less than 2^44 bytes away from the region.
OutOfRegionNearStep ==
  \A ptr \in WidePointers :
     (OutOfRegion(heap, ptr) /\ ptr.hi = 0)
     => /\ FreeWide(ptr) => Rejected("Invalid pointer freed")
        /\ GetAllocSizeWide(ptr) => Rejected("Invalid pointer")

C23_OutOfRegionNear == [][OutOfRegionNearStep]_vars

\* The heap h after nothing but what Free does to the block: its state, its
\* lookup entry and the pending list.
OnlyFreed(h, block, page_index) ==
  [h EXCEPT !.m_Blocks[block].m_Allocated = 0,
            !.m_Blocks[block].m_PendingFree = 1,
            !.m_BlockLookup[page_index] = Null,
            !.m_PendingList = Append(h.m_PendingList, block)]

\* The pages of memory that block b of h occupies.
BlockPages(h, b) ==
  PagesOf(h.m_BaseAddress + h.m_Blocks[b].m_PageIndex * kPageSize,
          h.m_Blocks[b].m_PageCount * kPageSize)

\* A Free that returned: the heap differs from before only as OnlyFreed says,
\* and the accessible pages only by those of the freed block.
FreeFrameStep ==
  (last'.op = "Free" /\ fault' = "none")
  => /\ BlockAt(heap, last'.ptr) # Null
     /\ IsAllocated(heap, BlockAt(heap, last'.ptr))
     /\ heap' = OnlyFreed(heap, BlockAt(heap, last'.ptr), PageIndexOf(heap, last'.ptr))
     /\ committed' = committed \ BlockPages(heap, BlockAt(heap, last'.ptr))

\* C24: a successful Free changes only the freed block's state (Allocated to
\* PendingFree), its BlockLookup entry (to none), the pending list (the block
\* appended at its end) and the protection of the block's pages; page indices,
\* page counts, links, free list and record pool are unchanged and nothing is
\* coalesced.
C24_FreeFrame == [][FreeFrameStep]_vars

\* A Free returned with another block already pending and a Free block after
\* the freed one that it could have merged with.
C24_Witness ==
  /\ last.op = "Free"
  /\ fault = "none"
  /\ Len(heap.m_PendingList) >= 2
  /\ \E b \in InUse(heap) :
        /\ IsFree(heap, b)
        /\ heap.m_Blocks[heap.m_PendingList[Len(heap.m_PendingList)]].m_Next = b

\* An Allocate of zero bytes ends in a fatal error, with the heap, the
\* accessible pages and the allocations as they were.
ZeroSizeStep ==
  (last'.op = "Allocate" /\ last'.size = NoSize)
  => /\ fault' # "none"
     /\ BesidesGuard(heap') = BesidesGuard(heap)
     /\ committed' = committed
     /\ live' = live

\* C25: Allocate(h, 0, a) is rejected with a fatal assertion; it never carves
\* a block, never consumes a block record and never returns a pointer.
C25_ZeroSizeRejected == [][ZeroSizeStep]_vars

====
